---- MODULE Spec2Model ----
(***************************************************************************)
(* vm-device: the MMIO bus (src/bus/range.rs, src/bus/mod.rs) and the      *)
(* dispatch manager (src/device_manager.rs).                                *)
(*                                                                         *)
(* Addresses are u64 in the source.  The model keeps the arithmetic of the *)
(* source (checked add in BusRange::new, plain add in BusRange::last,      *)
(* plain subtraction in mmio_read / mmio_write) over a narrower unsigned   *)
(* type 0..u64_MAX, so that the top of the address space is reachable.     *)
(***************************************************************************)
EXTENDS Integers, FiniteSets, Sequences, TLC

\* ------------------------------------------------------------------ bounds
\* Largest address of the narrowed address type in the exhaustive runs.
MaxAddr == 5
\* Largest address of the address type in the scenario runs (16 bits).
ScenMaxAddr == 65535
\* Largest address of the narrowed address type in the runs over resource
\* descriptor lists.
ResMaxAddr == 2
\* Longest list of resource descriptors handed to the manager.
MaxResources == 2
\* Largest address of the narrowed address type in the runs with threads.
ConcMaxAddr == 2
\* Registration is refused by the environment once this many ranges exist.
MaxRanges == 2

VARIABLES
    u64_MAX,   \* the largest value of the address type (u64::MAX, narrowed)
    devices,   \* Bus::devices, the BTreeMap<BusRange, D>: base |-> [size, dev]
    ret        \* the call the caller is looking at: its name, arguments, the
               \* bus it ran on, what it returned and the device invocations
               \* it made; Idle between calls.  In the runs with threads, one
               \* such record per thread, with the position of the thread in
               \* its call

vars == <<u64_MAX, devices, ret>>

\* Device handles (Arc<dyn VirtioMmioDevice>), compared by identity.
Handles == {"D1", "D2"}

\* ------------------------------------------------------ Result and Option
Ok(v) == [ok |-> TRUE, v |-> v]
Err(e) == [ok |-> FALSE, e |-> e]
Some(v) == [some |-> TRUE, v |-> v]
None == [some |-> FALSE]
\* The value () of a Result<(), Error>.
Unit == [unit |-> TRUE]

IsErr(r, e) == ~r.ok /\ r.e = e

\* ----------------------------------------------------------- bus/range.rs
\* Mutant: a sum equal to the largest value counts as an overflow.
checked_add_Strict(a, b) == IF a + b >= u64_MAX THEN None ELSE Some(a + b)

\* u64::checked_add: None when the sum leaves 0..u64::MAX.
checked_add(a, b) == IF a + b > u64_MAX THEN None ELSE Some(a + b)

\* u64 addition and subtraction as the release build computes them.
wrapping_add(a, b) == (a + b) % (u64_MAX + 1)
wrapping_sub(a, b) == (a - b) % (u64_MAX + 1)

\* Mutant: the last address of the new range is not checked against the type.
BusRange_new_Unchecked(base, size) ==
    IF size = 0 THEN Err("InvalidRange")
    ELSE Ok([base |-> base, size |-> size])

\* Mutant: the overflow check adds the size, not the size minus one.
BusRange_new_NoMinusOne(base, size) ==
    IF size = 0 THEN Err("InvalidRange")
    ELSE IF ~checked_add(base, size).some THEN Err("InvalidRange")
    ELSE Ok([base |-> base, size |-> size])

\* Mutant: no test for a size of zero; size - 1 wraps.
BusRange_new_NoZeroCheck(base, size) ==
    IF ~checked_add(base, wrapping_sub(size, 1)).some THEN Err("InvalidRange")
    ELSE Ok([base |-> base, size |-> size])

BusRange_new(base, size) ==
    IF size = 0 THEN Err("InvalidRange")
    ELSE IF ~checked_add(base, size - 1).some THEN Err("InvalidRange")
    ELSE Ok([base |-> base, size |-> size])

BusRange_unit(base) == [base |-> base, size |-> 1]

base_of(r) == r.base
size_of(r) == r.size
last(r) == wrapping_add(r.base, r.size - 1)

\* Mutant: ranges that touch without sharing an address count as overlapping.
overlaps_Touching(self, other) ==
    ~(self.base > last(other) + 1 \/ last(self) + 1 < other.base)

\* Mutant: the intervals taken as half-open, so sharing one address passes.
overlaps_HalfOpen(self, other) ==
    ~(self.base >= last(other) \/ last(self) <= other.base)

overlaps(self, other) == ~(self.base > last(other) \/ last(self) < other.base)

\* The mathematical value of every unchecked u64 operation a function
\* evaluates; a value outside 0..u64::MAX is an overflow (a panic in a debug
\* build, a wrapped value in a release build).
\* BusRange::new evaluates size - 1 once size is known not to be 0; the
\* addition that follows is checked.
BusRange_new_steps(base, size) == IF size = 0 THEN {} ELSE {size - 1}
\* BusRange::last evaluates size - 1 and base + (size - 1).
last_steps(r) == {r.size - 1, r.base + (r.size - 1)}

\* impl Ord for BusRange: ranges are ordered and compared by base alone.
cmp_le(a, b) == a.base <= b.base
cmp_eq(a, b) == a.base = b.base

\* ------------------------------------------------------------- bus/mod.rs
\* The BTreeMap is a function from the base of each key to the rest of the
\* key (its size) and the value (the device handle).
EmptyMap == [b \in {} |-> [size |-> 0, dev |-> ""]]

KeyAt(m, b) == [base |-> b, size |-> m[b].size]
Keys(m) == {KeyAt(m, b) : b \in DOMAIN m}
Entries(m) == {[range |-> KeyAt(m, b), dev |-> m[b].dev] : b \in DOMAIN m}

\* BTreeMap::insert: a key equal (by Ord) to a stored key keeps the stored
\* key and replaces its value.
BTreeMap_insert(m, key, value) ==
    IF \E b \in DOMAIN m : cmp_eq(KeyAt(m, b), key)
    THEN [m EXCEPT ![key.base].dev = value]
    ELSE [b \in DOMAIN m \cup {key.base} |->
            IF b = key.base THEN [size |-> key.size, dev |-> value] ELSE m[b]]

\* BTreeMap::remove: removes the entry whose key equals (by Ord) the key.
BTreeMap_remove(m, key) ==
    IF \E b \in DOMAIN m : cmp_eq(KeyAt(m, b), key)
    THEN [map |-> [b \in DOMAIN m \ {key.base} |-> m[b]],
          val |-> Some(m[key.base].dev)]
    ELSE [map |-> m, val |-> None]

MaxOf(S) == CHOOSE x \in S : \A y \in S : y <= x

\* Bus::new
Bus_new == EmptyMap

\* Mutant: the containment check excludes the last address of the range.
Bus_device_StrictLast(m, addr) ==
    LET upto == {b \in DOMAIN m : cmp_le(KeyAt(m, b), BusRange_unit(addr))}
    IN  IF upto = {} THEN None
        ELSE LET b == MaxOf(upto)
                 pair == [range |-> KeyAt(m, b), dev |-> m[b].dev]
             IN  IF last(pair.range) > addr THEN Some(pair) ELSE None

\* Bus::device: the last entry of range(..=unit(addr)), kept when its range
\* reaches addr.
Bus_device(m, addr) ==
    LET upto == {b \in DOMAIN m : cmp_le(KeyAt(m, b), BusRange_unit(addr))}
    IN  IF upto = {} THEN None
        ELSE LET b == MaxOf(upto)
                 pair == [range |-> KeyAt(m, b), dev |-> m[b].dev]
             IN  IF last(pair.range) >= addr THEN Some(pair) ELSE None

\* Bus::device calls last() on the entry it found, if any.
Bus_device_steps(m, addr) ==
    LET upto == {b \in DOMAIN m : cmp_le(KeyAt(m, b), BusRange_unit(addr))}
    IN  IF upto = {} THEN {} ELSE last_steps(KeyAt(m, MaxOf(upto)))

\* Bus::device_mut: the same entry as Bus::device, found with range_mut; the
\* device is handed out as &mut D, the map is not changed by the call.
Bus_device_mut(m, addr) == Bus_device(m, addr)

\* Mutant: only the first address of the new range is tested against the bus.
Bus_register_PointCheck(m, range, device) ==
    IF Bus_device(m, range.base).some
    THEN [bus |-> m, val |-> Err("DeviceOverlap")]
    ELSE [bus |-> BTreeMap_insert(m, range, device), val |-> Ok(Unit)]

\* Bus::register
Bus_register(m, range, device) ==
    IF \E r \in Keys(m) : overlaps(range, r)
    THEN [bus |-> m, val |-> Err("DeviceOverlap")]
    ELSE [bus |-> BTreeMap_insert(m, range, device), val |-> Ok(Unit)]

\* Mutant: every range of the handle found is removed with it.
Bus_deregister_WholeDevice(m, addr) ==
    LET found == Bus_device(m, addr)
    IN  IF ~found.some THEN [bus |-> m, val |-> None]
        ELSE [bus |-> [b \in {x \in DOMAIN m : m[x].dev # found.v.dev} |-> m[b]],
              val |-> Some(found.v)]

\* Mutant: the entry is removed by the key unit(addr), not by the range found.
Bus_deregister_ByUnit(m, addr) ==
    LET found == Bus_device(m, addr)
    IN  IF ~found.some THEN [bus |-> m, val |-> None]
        ELSE LET range == found.v.range
                 removed == BTreeMap_remove(m, BusRange_unit(addr))
             IN  [bus |-> removed.map,
                  val |-> IF removed.val.some
                          THEN Some([range |-> range, dev |-> removed.val.v])
                          ELSE None]

\* Bus::deregister
Bus_deregister(m, addr) ==
    LET found == Bus_device(m, addr)
    IN  IF ~found.some THEN [bus |-> m, val |-> None]
        ELSE LET range == found.v.range
                 removed == BTreeMap_remove(m, range)
             IN  [bus |-> removed.map,
                  val |-> IF removed.val.some
                          THEN Some([range |-> range, dev |-> removed.val.v])
                          ELSE None]

\* Mutant: the lookup is made before the probe range is validated.
Bus_check_access_LookupFirst(m, addr, len) ==
    LET found == Bus_device(m, addr)
        access_range == BusRange_new(addr, len)
    IN  IF ~found.some THEN Err("DeviceNotFound")
        ELSE IF ~access_range.ok THEN Err("InvalidRange")
        ELSE IF last(found.v.range) >= last(access_range.v) THEN Ok(found.v)
        ELSE Err("DeviceNotFound")

\* Mutant: an access ending on the last address of the range is refused.
Bus_check_access_StrictFit(m, addr, len) ==
    LET access_range == BusRange_new(addr, len)
    IN  IF ~access_range.ok THEN Err("InvalidRange")
        ELSE LET found == Bus_device(m, addr)
             IN  IF found.some /\ last(found.v.range) > last(access_range.v)
                 THEN Ok(found.v)
                 ELSE Err("DeviceNotFound")

\* Mutant: only the first byte of the access is tested against the range.
Bus_check_access_FirstByte(m, addr, len) ==
    LET access_range == BusRange_new(addr, len)
    IN  IF ~access_range.ok THEN Err("InvalidRange")
        ELSE LET found == Bus_device(m, addr)
             IN  IF found.some THEN Ok(found.v) ELSE Err("DeviceNotFound")

\* Bus::check_access
Bus_check_access(m, addr, len) ==
    LET access_range == BusRange_new(addr, len)
    IN  IF ~access_range.ok THEN Err("InvalidRange")
        ELSE LET found == Bus_device(m, addr)
             IN  IF found.some /\ last(found.v.range) >= last(access_range.v)
                 THEN Ok(found.v)
                 ELSE Err("DeviceNotFound")

\* Bus::check_access: the steps of BusRange::new, then, when the probe range
\* is valid, of the lookup and of the two calls of last() in the filter.
Bus_check_access_steps(m, addr, len) ==
    LET access_range == BusRange_new(addr, len)
        found == Bus_device(m, addr)
    IN  BusRange_new_steps(addr, len)
          \cup (IF ~access_range.ok THEN {}
                ELSE Bus_device_steps(m, addr)
                       \cup (IF ~found.some THEN {}
                             ELSE last_steps(found.v.range)
                                    \cup last_steps(access_range.v)))

\* ------------------------------------------------------ device_manager.rs
\* VirtioMmioOffset::from(u64): the offset handed to the device.
VirtioMmioOffset_from(x) == x

\* Mutant: the device receives the absolute address as its offset.
Invocation_Absolute(device, op, range, addr, len) ==
    [dev |-> device, op |-> op, base |-> base_of(range),
     offset |-> VirtioMmioOffset_from(addr), len |-> len]

\* The call the closure of mmio_read / mmio_write makes on the device.
Invocation(device, op, range, addr, len) ==
    [dev |-> device, op |-> op, base |-> base_of(range),
     offset |-> VirtioMmioOffset_from(wrapping_sub(addr, base_of(range))),
     len |-> len]

\* MmioManager::mmio_device
mmio_device(m, addr) == Bus_device(m, addr)

\* Mutant: the device that owns the first byte is read before the access is
\* known to fit.
mmio_read_Partial(m, addr, len) ==
    LET r == Bus_check_access(m, addr, len)
        found == Bus_device(m, addr)
    IN  [val |-> IF r.ok THEN Ok(Unit) ELSE r,
         calls |-> IF found.some
                   THEN <<Invocation(found.v.dev, "read", found.v.range, addr, len)>>
                   ELSE <<>>]

\* MmioManager::mmio_read
mmio_read(m, addr, len) ==
    LET r == Bus_check_access(m, addr, len)
    IN  IF r.ok
        THEN [val |-> Ok(Unit),
              calls |-> <<Invocation(r.v.dev, "read", r.v.range, addr, len)>>]
        ELSE [val |-> r, calls |-> <<>>]

\* Mutant: the bytes that fit are written to the device that owns the first
\* byte when the whole access does not fit.
mmio_write_Partial(m, addr, len) ==
    LET r == Bus_check_access(m, addr, len)
        found == Bus_device(m, addr)
    IN  [val |-> IF r.ok THEN Ok(Unit) ELSE r,
         calls |-> IF found.some
                   THEN <<Invocation(found.v.dev, "write", found.v.range, addr,
                                     IF r.ok THEN len
                                     ELSE last(found.v.range) - addr + 1)>>
                   ELSE <<>>]

\* MmioManager::mmio_write
mmio_write(m, addr, len) ==
    LET r == Bus_check_access(m, addr, len)
    IN  IF r.ok
        THEN [val |-> Ok(Unit),
              calls |-> <<Invocation(r.v.dev, "write", r.v.range, addr, len)>>]
        ELSE [val |-> r, calls |-> <<>>]

\* mmio_read / mmio_write: the steps of check_access, then addr - range.base
\* when the access is accepted.
mmio_steps(m, addr, len) ==
    LET r == Bus_check_access(m, addr, len)
    IN  Bus_check_access_steps(m, addr, len)
          \cup (IF r.ok THEN {addr - base_of(r.v.range)} ELSE {})

\* MmioManager::register_mmio
register_mmio(m, range, device) == Bus_register(m, range, device)

\* MmioManager::deregister_mmio
deregister_mmio(m, addr) == Bus_deregister(m, addr)

\* enum Resource.  Every variant is a record of the same shape; only
\* GuestAddressRange is matched with its fields by the manager.
ResourceKinds ==
    {"GuestAddressRange", "LegacyIrq", "MsiIrq", "MacAddresss", "KvmMemSlot"}
GuestAddressRange(base, size) ==
    [kind |-> "GuestAddressRange", base |-> base, size |-> size]

\* device_manager::Error::Bus(e), the only error of the manager.
Error_Bus(e) == [ok |-> FALSE, Bus |-> e]
\* The panic of Result::unwrap() on an Err value.
Panic(e) == [ok |-> FALSE, panic |-> e]

\* Mutant: the call returns after the first address-range descriptor.
register_mmio_resources_FirstOnly(m, device, resources) ==
    LET idx == {i \in 1..Len(resources) :
                    resources[i].kind = "GuestAddressRange"}
    IN  IF idx = {} THEN [bus |-> m, val |-> Ok(Unit)]
        ELSE LET res == resources[CHOOSE i \in idx : \A j \in idx : i <= j]
                 range == BusRange_new(res.base, res.size)
             IN  IF ~range.ok THEN [bus |-> m, val |-> Panic(range.e)]
                 ELSE LET r == register_mmio(m, range.v, device)
                      IN  [bus |-> r.bus,
                           val |-> IF r.val.ok THEN r.val
                                   ELSE Error_Bus(r.val.e)]

\* IoManager::register_mmio_resources: the descriptors are handled in order;
\* an invalid range panics in unwrap(), an error of register_mmio returns
\* through `?`; in both cases the ranges registered so far stay on the bus.
RECURSIVE register_mmio_resources(_, _, _)
register_mmio_resources(m, device, resources) ==
    IF resources = <<>> THEN [bus |-> m, val |-> Ok(Unit)]
    ELSE LET res == Head(resources)
         IN  IF res.kind = "GuestAddressRange"
             THEN LET range == BusRange_new(res.base, res.size)
                  IN  IF ~range.ok THEN [bus |-> m, val |-> Panic(range.e)]
                      ELSE LET r == register_mmio(m, range.v, device)
                           IN  IF ~r.val.ok
                               THEN [bus |-> r.bus, val |-> Error_Bus(r.val.e)]
                               ELSE register_mmio_resources(
                                        r.bus, device, Tail(resources))
             ELSE register_mmio_resources(m, device, Tail(resources))

\* IoManager::register_resources
register_resources(m, device, resources) ==
    register_mmio_resources(m, device, resources)

\* Mutant: the call returns after the first address-range descriptor.
deregister_resources_FirstOnly(m, resources) ==
    LET idx == {i \in 1..Len(resources) :
                    resources[i].kind = "GuestAddressRange"}
    IN  IF idx = {} THEN [bus |-> m, count |-> 0]
        ELSE LET res == resources[CHOOSE i \in idx : \A j \in idx : i <= j]
                 r == deregister_mmio(m, res.base)
             IN  [bus |-> r.bus, count |-> IF r.val.some THEN 1 ELSE 0]

\* Mutant: every address-range descriptor is counted, found or not.
RECURSIVE deregister_resources_CountAll(_, _)
deregister_resources_CountAll(m, resources) ==
    IF resources = <<>> THEN [bus |-> m, count |-> 0]
    ELSE LET res == Head(resources)
         IN  IF res.kind = "GuestAddressRange"
             THEN LET r == deregister_mmio(m, res.base)
                      rest == deregister_resources_CountAll(r.bus, Tail(resources))
                  IN  [bus |-> rest.bus, count |-> 1 + rest.count]
             ELSE deregister_resources_CountAll(m, Tail(resources))

\* IoManager::deregister_resources: the range that contains the base of each
\* address-range descriptor is removed and counted; the size is not read.
RECURSIVE deregister_resources(_, _)
deregister_resources(m, resources) ==
    IF resources = <<>> THEN [bus |-> m, count |-> 0]
    ELSE LET res == Head(resources)
         IN  IF res.kind = "GuestAddressRange"
             THEN LET r == deregister_mmio(m, res.base)
                      rest == deregister_resources(r.bus, Tail(resources))
                  IN  [bus |-> rest.bus,
                       count |-> (IF r.val.some THEN 1 ELSE 0) + rest.count]
             ELSE deregister_resources(m, Tail(resources))

\* ------------------------------------------------------------------ inputs
\* The exhaustive runs draw every address, size and length of the narrowed
\* type; the scenario runs draw the addresses and lengths of the scenario.
Scenario == u64_MAX = ScenMaxAddr
ScenAddrs == {4096, 4240, 4344, 4352}     \* 0x1000, 0x1090, 0x10F8, 0x1100
ScenSizes == {0, 256}                     \* 0x100
ScenLens == {0, 1, 2, 16}

Addrs == IF Scenario THEN ScenAddrs ELSE 0..u64_MAX
Sizes == IF Scenario THEN ScenSizes ELSE 0..u64_MAX
Lens == IF Scenario THEN ScenLens ELSE 0..u64_MAX

\* The descriptors a caller may hand over: every address-range descriptor of
\* the narrowed type and one descriptor of each other variant.
Resources ==
    {GuestAddressRange(base, size) : base \in Addrs, size \in Sizes}
      \cup {[kind |-> k, base |-> 0, size |-> 1] :
                k \in ResourceKinds \ {"GuestAddressRange"}}
ResourceLists == UNION {[1..n -> Resources] : n \in 0..MaxResources}

CallWith(op, dev, resources, val) ==
    [op |-> op, dev |-> dev, resources |-> resources, bus |-> devices,
     val |-> val]

Call(op, addr, len, dev, val, calls) ==
    [op |-> op, addr |-> addr, len |-> len, dev |-> dev,
     bus |-> devices, val |-> val, calls |-> calls]

\* Between two calls the caller holds no result.
Idle == [op |-> "idle"]

\* ----------------------------------------------------------------- actions
InitWith(max) ==
    /\ u64_MAX = max
    /\ devices = Bus_new
    /\ ret = Idle

InitResources == InitWith(ResMaxAddr)
Init == InitWith(MaxAddr)
InitScenario == InitWith(ScenMaxAddr)

\* BusRange::new(base, size)
New ==
    \E base \in Addrs, size \in Sizes :
        /\ ret = Idle
        /\ ret' = Call("new", base, size, "", BusRange_new(base, size), <<>>)
        /\ UNCHANGED <<u64_MAX, devices>>

\* register_mmio(BusRange::new(base, size)?, device): a BusRange exists only
\* as the result of a successful BusRange::new (or unit, which is new(base, 1)).
Register ==
    \E base \in Addrs, size \in Sizes, device \in Handles :
        /\ ret = Idle
        /\ BusRange_new(base, size).ok
        /\ Cardinality(DOMAIN devices) < MaxRanges
        /\ LET r == register_mmio(devices, BusRange_new(base, size).v, device)
           IN  /\ devices' = r.bus
               /\ ret' = Call("register", base, size, device, r.val, <<>>)
        /\ UNCHANGED u64_MAX

\* deregister_mmio(addr)
Deregister ==
    \E addr \in Addrs :
        /\ ret = Idle
        /\ LET r == deregister_mmio(devices, addr)
           IN  /\ devices' = r.bus
               /\ ret' = Call("deregister", addr, 0, "", r.val, <<>>)
        /\ UNCHANGED u64_MAX

\* Mutant: the lookup takes the entry found out of the map.
Device_Take ==
    \E addr \in Addrs :
        /\ ret = Idle
        /\ devices' = Bus_deregister(devices, addr).bus
        /\ ret' = Call("device", addr, 0, "", mmio_device(devices, addr), <<>>)
        /\ UNCHANGED u64_MAX

\* mmio_device(addr), i.e. Bus::device(addr)
Device ==
    \E addr \in Addrs :
        /\ ret = Idle
        /\ ret' = Call("device", addr, 0, "", mmio_device(devices, addr), <<>>)
        /\ UNCHANGED <<u64_MAX, devices>>

\* Bus::device_mut(addr)
DeviceMut ==
    \E addr \in Addrs :
        /\ ret = Idle
        /\ ret' = Call("device_mut", addr, 0, "",
                       Bus_device_mut(devices, addr), <<>>)
        /\ UNCHANGED <<u64_MAX, devices>>

\* Bus::check_access(addr, len)
CheckAccess ==
    \E addr \in Addrs, len \in Lens :
        /\ ret = Idle
        /\ ret' = Call("check_access", addr, len, "",
                       Bus_check_access(devices, addr, len), <<>>)
        /\ UNCHANGED <<u64_MAX, devices>>

\* mmio_read(addr, data) with data.len() = len
MmioRead ==
    \E addr \in Addrs, len \in Lens :
        /\ ret = Idle
        /\ LET r == mmio_read(devices, addr, len)
           IN  ret' = Call("mmio_read", addr, len, "", r.val, r.calls)
        /\ UNCHANGED <<u64_MAX, devices>>

\* mmio_write(addr, data) with data.len() = len
MmioWrite ==
    \E addr \in Addrs, len \in Lens :
        /\ ret = Idle
        /\ LET r == mmio_write(devices, addr, len)
           IN  ret' = Call("mmio_write", addr, len, "", r.val, r.calls)
        /\ UNCHANGED <<u64_MAX, devices>>

\* The caller drops the result of the call and is ready for the next one.
Return ==
    /\ ret # Idle
    /\ ret' = Idle
    /\ UNCHANGED <<u64_MAX, devices>>

Next ==
    \/ New
    \/ Register
    \/ Deregister
    \/ Device
    \/ DeviceMut
    \/ CheckAccess
    \/ MmioRead
    \/ MmioWrite
    \/ Return

\* register_resources(device, resources), which is register_mmio_resources
RegisterResources ==
    /\ ret = Idle
    /\ Cardinality(DOMAIN devices) < MaxRanges
    /\ \E device \in Handles, resources \in ResourceLists :
        /\ LET r == register_resources(devices, device, resources)
           IN  /\ devices' = r.bus
               /\ ret' = CallWith("register_resources", device, resources, r.val)
        /\ UNCHANGED u64_MAX

\* deregister_resources(resources)
DeregisterResources ==
    /\ ret = Idle
    /\ \E resources \in ResourceLists :
        /\ LET r == deregister_resources(devices, resources)
           IN  /\ devices' = r.bus
               /\ ret' = CallWith("deregister_resources", "", resources,
                                  [count |-> r.count])
        /\ UNCHANGED u64_MAX

NextResources ==
    \/ RegisterResources
    \/ DeregisterResources
    \/ Return

Spec == Init /\ [][Next]_vars
SpecScenario == InitScenario /\ [][Next]_vars
SpecResources == InitResources /\ [][NextResources]_vars

\* ------------------------------------------------------------------ threads
\* Several threads use one manager.  A call of a `&self` method holds a shared
\* borrow of the manager from its first step to its return, a call of a
\* `&mut self` method an exclusive one; the borrow rules (or the lock that
\* hands out the references) admit any number of shared borrows or one
\* exclusive borrow.
Threads == {"T1", "T2"}

ReadOps == {"mmio_read", "mmio_write"}
WriteOps == {"register", "deregister", "register_resources"}

\* The thread is inside a call of a `&self` method.
HoldsShared(t) ==
    ret[t].op \in ReadOps /\ ret[t].pc \in {"borrowed", "checked", "delivered"}
\* The thread is inside a call of a `&mut self` method.
HoldsExclusive(t) == ret[t].op \in WriteOps

\* Mutant: a shared reference is handed out while another thread mutates.
CanBorrowShared_Unchecked(t) == TRUE

\* `&self`: no other thread holds `&mut self`.
CanBorrowShared(t) == \A u \in Threads \ {t} : ~HoldsExclusive(u)
\* `&mut self`: no other thread holds any reference.
CanBorrowExclusive(t) ==
    \A u \in Threads \ {t} : ~HoldsExclusive(u) /\ ~HoldsShared(u)

\* The bus a mutation in flight leads to when it has run to its end.
AfterOf(w) ==
    CASE w.op = "register"
            -> register_mmio(w.bus, BusRange_new(w.addr, w.len).v, w.dev).bus
      [] w.op = "deregister" -> deregister_mmio(w.bus, w.addr).bus
      [] w.op = "register_resources"
            -> register_resources(w.bus, w.dev, w.resources).bus
\* The buses a reader may observe now: before or after each mutation in
\* flight, and the bus itself when there is none.
Cuts ==
    IF \E w \in Threads : HoldsExclusive(w)
    THEN UNION {{ret[w].bus, AfterOf(ret[w])} :
                    w \in {u \in Threads : HoldsExclusive(u)}}
    ELSE {devices}

\* Pairs of address-range descriptors of one address each.
PairLists ==
    {<<GuestAddressRange(a, 1), GuestAddressRange(b, 1)>> :
        a \in Addrs, b \in Addrs}

ReadCall(op, pc, addr, len, obs, cuts, val, calls) ==
    [op |-> op, pc |-> pc, addr |-> addr, len |-> len, obs |-> obs,
     cuts |-> cuts, val |-> val, calls |-> calls]
WriteCall(op, pc, addr, len, dev, resources, todo, bus, val) ==
    [op |-> op, pc |-> pc, addr |-> addr, len |-> len, dev |-> dev,
     resources |-> resources, todo |-> todo, bus |-> bus, val |-> val]
Pending == Err("pending")

InitThreads ==
    /\ u64_MAX = ConcMaxAddr
    /\ devices = Bus_new
    /\ ret = [t \in Threads |-> Idle]

\* mmio_read(&self, ..) / mmio_write(&self, ..) is entered.
BeginRead(t) ==
    /\ ret[t] = Idle
    /\ CanBorrowShared(t)
    /\ \E op \in ReadOps, addr \in Addrs, len \in Lens :
          ret' = [ret EXCEPT ![t] =
                    ReadCall(op, "borrowed", addr, len, devices, Cuts,
                             Pending, <<>>)]
    /\ UNCHANGED <<u64_MAX, devices>>

\* self.bus().check_access(addr, data.len()) reads the map.
CheckStep(t) ==
    /\ ret[t].op \in ReadOps /\ ret[t].pc = "borrowed"
    /\ ret' = [ret EXCEPT ![t] =
                 ReadCall(@.op, "checked", @.addr, @.len, devices, Cuts,
                          Bus_check_access(devices, @.addr, @.len), <<>>)]
    /\ UNCHANGED <<u64_MAX, devices>>

\* The closure calls the device found, or the error is passed on.
DeliverStep(t) ==
    /\ ret[t].op \in ReadOps /\ ret[t].pc = "checked"
    /\ LET c == ret[t]
           op == IF c.op = "mmio_read" THEN "read" ELSE "write"
       IN  ret' = [ret EXCEPT ![t] =
                     ReadCall(c.op, "delivered", c.addr, c.len, c.obs, c.cuts,
                              c.val,
                              IF c.val.ok
                              THEN <<Invocation(c.val.v.dev, op, c.val.v.range,
                                                c.addr, c.len)>>
                              ELSE <<>>)]
    /\ UNCHANGED <<u64_MAX, devices>>

\* register_mmio(&mut self, range, device) is entered.
BeginRegister(t) ==
    /\ ret[t] = Idle
    /\ CanBorrowExclusive(t)
    /\ Cardinality(DOMAIN devices) < MaxRanges
    /\ \E base \in Addrs, size \in Sizes, device \in Handles :
          /\ BusRange_new(base, size).ok
          /\ ret' = [ret EXCEPT ![t] =
                       WriteCall("register", "entered", base, size, device,
                                 <<>>, <<>>, devices, Pending)]
    /\ UNCHANGED <<u64_MAX, devices>>

\* deregister_mmio(&mut self, addr) is entered.
BeginDeregister(t) ==
    /\ ret[t] = Idle
    /\ CanBorrowExclusive(t)
    /\ \E addr \in Addrs :
          ret' = [ret EXCEPT ![t] =
                    WriteCall("deregister", "entered", addr, 0, "", <<>>, <<>>,
                              devices, Pending)]
    /\ UNCHANGED <<u64_MAX, devices>>

\* register_resources(&mut self, device, resources) is entered.
BeginRegisterResources(t) ==
    /\ ret[t] = Idle
    /\ CanBorrowExclusive(t)
    /\ Cardinality(DOMAIN devices) < MaxRanges
    /\ \E device \in Handles, resources \in PairLists :
          ret' = [ret EXCEPT ![t] =
                    WriteCall("register_resources", "entered", 0, 0, device,
                              resources, resources, devices, Pending)]
    /\ UNCHANGED <<u64_MAX, devices>>

\* Bus::register scans the keys and inserts; the call returns and the thread
\* drops the result.
ApplyRegister(t) ==
    /\ ret[t].op = "register" /\ ret[t].pc = "entered"
    /\ LET c == ret[t]
           r == register_mmio(devices, BusRange_new(c.addr, c.len).v, c.dev)
       IN  devices' = r.bus
    /\ ret' = [ret EXCEPT ![t] = Idle]
    /\ UNCHANGED u64_MAX

\* Bus::deregister finds the range and removes it; the call returns and the
\* thread drops the result.
ApplyDeregister(t) ==
    /\ ret[t].op = "deregister" /\ ret[t].pc = "entered"
    /\ devices' = deregister_mmio(devices, ret[t].addr).bus
    /\ ret' = [ret EXCEPT ![t] = Idle]
    /\ UNCHANGED u64_MAX

\* One turn of the loop of register_mmio_resources: the next descriptor is
\* registered; on an error and after the last descriptor the call returns
\* and the thread drops the result.
ResourceStep(t) ==
    /\ ret[t].op = "register_resources" /\ ret[t].pc = "entered"
    /\ LET c == ret[t]
           r == register_mmio_resources(devices, c.dev, <<Head(c.todo)>>)
           last_turn == ~r.val.ok \/ Tail(c.todo) = <<>>
       IN  /\ devices' = r.bus
           /\ ret' = [ret EXCEPT ![t] =
                        IF last_turn THEN Idle
                        ELSE WriteCall(c.op, "entered", c.addr, c.len, c.dev,
                                       c.resources, Tail(c.todo), c.bus,
                                       Pending)]
    /\ UNCHANGED u64_MAX

\* The dispatch of the thread returns, which gives its reference back, and
\* the thread drops the result.
ReturnThread(t) ==
    /\ ret[t].op \in ReadOps
    /\ ret[t].pc = "delivered"
    /\ ret' = [ret EXCEPT ![t] = Idle]
    /\ UNCHANGED <<u64_MAX, devices>>

NextThreads ==
    \E t \in Threads :
        \/ BeginRead(t)
        \/ CheckStep(t)
        \/ DeliverStep(t)
        \/ BeginRegister(t)
        \/ BeginDeregister(t)
        \/ BeginRegisterResources(t)
        \/ ApplyRegister(t)
        \/ ApplyDeregister(t)
        \/ ResourceStep(t)
        \/ ReturnThread(t)

SpecThreads == InitThreads /\ [][NextThreads]_vars

\* ------------------------------------------------------- claim vocabulary
\* Closed intervals over the integers, without the wrap-around of the
\* address type.
Lo(r) == r.base
Hi(r) == r.base + r.size - 1
Covers(r, a) == Lo(r) <= a /\ a <= Hi(r)
Intersect(r1, r2) == \E a \in Lo(r1)..Hi(r1) : Covers(r2, a)
Called(ops) == ret.op \in ops
\* The range the arguments of a New or Register call describe.
ArgRange == [base |-> ret.addr, size |-> ret.len]
\* The last byte of the access a call describes.
AccessLast == ret.addr + ret.len - 1

\* C1: no two registered ranges overlap as closed intervals [base, last],
\* whatever sequence of register and deregister calls was made.
C1_NonOverlap ==
    \A r1 \in Keys(devices), r2 \in Keys(devices) :
        r1 # r2 => ~Intersect(r1, r2)

\* Two adjacent ranges are registered, the second by the call just made.
C1_Witness ==
    /\ Called({"register"}) /\ ret.val.ok
    /\ \E r1 \in Keys(devices), r2 \in Keys(devices) : Hi(r1) + 1 = Lo(r2)

\* C2: a register call whose range overlaps a registered range returns
\* DeviceOverlap and leaves every range, size and handle of the bus as it was.
C2_OverlapRejected ==
    (Called({"register"}) /\ \E r \in Keys(ret.bus) : Intersect(ArgRange, r))
        => /\ IsErr(ret.val, "DeviceOverlap")
           /\ devices = ret.bus
           /\ Entries(devices) = Entries(ret.bus)

\* A registration at the base of a registered range, with another size and
\* another handle, was rejected.
C2_Witness ==
    /\ Called({"register"}) /\ IsErr(ret.val, "DeviceOverlap")
    /\ ret.addr \in DOMAIN ret.bus
    /\ ret.bus[ret.addr].size # ret.len
    /\ ret.bus[ret.addr].dev # ret.dev

\* C3: lookup returns the registered range that contains the address, with
\* its handle, and nothing for an address outside every registered range.
C3_Containment ==
    Called({"device"})
        => /\ \A e \in Entries(ret.bus) :
                Covers(e.range, ret.addr) => ret.val.some /\ ret.val.v = e
           /\ (\A e \in Entries(ret.bus) : ~Covers(e.range, ret.addr))
                => ~ret.val.some

\* A lookup inside the upper of two registered ranges, above its base.
C3_Witness ==
    /\ Called({"device"}) /\ ret.val.some
    /\ ret.addr > Lo(ret.val.v.range)
    /\ \E r \in Keys(ret.bus) : Hi(r) < Lo(ret.val.v.range)

\* A lookup in the gap between two registered ranges.
C3_WitnessMiss ==
    /\ Called({"device"}) /\ ~ret.val.some
    /\ \E r1 \in Keys(ret.bus), r2 \in Keys(ret.bus) :
            Hi(r1) < ret.addr /\ ret.addr < Lo(r2)

\* Some registered range holds the whole access [addr, addr + len - 1].
FitsSome == \E r \in Keys(ret.bus) : Lo(r) <= ret.addr /\ AccessLast <= Hi(r)
\* The registered entry whose range holds the first byte of the access.
CoveringEntries == {e \in Entries(ret.bus) : Covers(e.range, ret.addr)}
\* The access starts inside a registered range and ends beyond it.
Straddles == \E e \in CoveringEntries : AccessLast > Hi(e.range)

\* C4 as stated: for every address and every length, check_access succeeds
\* iff some registered range holds the whole access, returns that range and
\* its handle, and fails with DeviceNotFound when the first byte is covered
\* and the last byte is beyond the covering range.
C4_AsStated ==
    Called({"check_access"})
        => /\ ret.val.ok <=> FitsSome
           /\ Straddles => IsErr(ret.val, "DeviceNotFound")
           /\ ret.val.ok => ret.val.v \in CoveringEntries

\* C4: for every address and every length of at least 1, check_access
\* succeeds iff some registered range holds the whole access, and then returns
\* that range and its handle; a length of 0 fails with InvalidRange; an access
\* whose first byte is covered and whose last byte is beyond the covering
\* range fails with DeviceNotFound when the last byte is an address, and with
\* InvalidRange when it is beyond the largest address.
C4_AccessFit ==
    Called({"check_access"})
        => /\ ret.len >= 1 => (ret.val.ok <=> FitsSome)
           /\ ret.len = 0 => IsErr(ret.val, "InvalidRange")
           /\ (Straddles /\ AccessLast <= u64_MAX)
                => IsErr(ret.val, "DeviceNotFound")
           /\ (Straddles /\ AccessLast > u64_MAX)
                => IsErr(ret.val, "InvalidRange")
           /\ ret.val.ok => ret.val.v \in CoveringEntries

\* An access of several bytes ending on the last address of the upper of two
\* registered ranges succeeded.
C4_Witness ==
    /\ Called({"check_access"}) /\ ret.val.ok /\ ret.len > 1
    /\ AccessLast = Hi(ret.val.v.range)
    /\ \E r \in Keys(ret.bus) : Hi(r) < Lo(ret.val.v.range)

\* The entry a successful dispatch must have reached, as an invocation.
Expected(e, op) ==
    [dev |-> e.dev, op |-> op, base |-> Lo(e.range),
     offset |-> ret.addr - Lo(e.range), len |-> ret.len]
OpOf(call) == IF call = "mmio_read" THEN "read" ELSE "write"

\* C5: a successful mmio_read (mmio_write) invokes exactly once the read
\* (write) of the handle registered for the range that contains addr, with
\* that range's base and the offset addr - base, and invokes nothing else.
C5_Dispatch ==
    (Called({"mmio_read", "mmio_write"}) /\ ret.val.ok)
        => \E e \in CoveringEntries : ret.calls = <<Expected(e, OpOf(ret.op))>>

\* One handle is registered under two ranges and the access hit the upper
\* one above its base: the base received is the base of the range hit.
C5_Witness ==
    /\ Called({"mmio_read"}) /\ ret.val.ok
    /\ \E e1 \in Entries(ret.bus), e2 \in Entries(ret.bus) :
        /\ e1.dev = e2.dev /\ Hi(e1.range) < Lo(e2.range)
        /\ Covers(e2.range, ret.addr)
        /\ ret.calls[1].base = Lo(e2.range) /\ ret.calls[1].offset > 0

\* C6: when mmio_read or mmio_write returns an error it is the error of
\* check_access for the same address and length, and no handle was invoked.
C6_FailedDispatch ==
    (Called({"mmio_read", "mmio_write"}) /\ ~ret.val.ok)
        => /\ ret.val = Bus_check_access(ret.bus, ret.addr, ret.len)
           /\ ret.val.e \in {"InvalidRange", "DeviceNotFound"}
           /\ ret.val.e = "InvalidRange"
                <=> (ret.len = 0 \/ AccessLast > u64_MAX)
           /\ ret.calls = <<>>

\* A write that starts inside a registered range failed.
C6_Witness ==
    /\ Called({"mmio_write"}) /\ IsErr(ret.val, "DeviceNotFound")
    /\ CoveringEntries # {} /\ ret.calls = <<>>

\* C7 as stated: an access that starts inside a registered range and ends
\* beyond it fails with DeviceNotFound.
C7_AsStated ==
    (Called({"check_access", "mmio_read", "mmio_write"}) /\ Straddles)
        => IsErr(ret.val, "DeviceNotFound") /\ ret.calls = <<>>

\* C7: an access that starts inside a registered range and ends beyond it
\* fails, with DeviceNotFound when its last byte is an address and with
\* InvalidRange when its last byte is beyond the largest address, also when
\* an adjacent range covers the remaining bytes; no handle is invoked.
C7_Straddling ==
    (Called({"check_access", "mmio_read", "mmio_write"}) /\ Straddles)
        => /\ IsErr(ret.val, IF AccessLast <= u64_MAX
                             THEN "DeviceNotFound" ELSE "InvalidRange")
           /\ ret.calls = <<>>

\* A write starting in one range and ending inside the adjacent range failed.
C7_Witness ==
    /\ Called({"mmio_write"}) /\ IsErr(ret.val, "DeviceNotFound")
    /\ \E r1 \in Keys(ret.bus), r2 \in Keys(ret.bus) :
        /\ Hi(r1) + 1 = Lo(r2)
        /\ Covers(r1, ret.addr) /\ Covers(r2, AccessLast)

\* The bus the scenario starts from: handle d at base 0x1000 with size 0x100
\* and nothing else.
OnlyAt1000(d) ==
    /\ DOMAIN ret.bus = {4096}
    /\ ret.bus[4096] = [size |-> 256, dev |-> d]
WriteOf(d, offset, len) ==
    [dev |-> d, op |-> "write", base |-> 4096, offset |-> offset, len |-> len]

\* C8 as stated: with D alone at [0x1000, 0x10FF], write(0x1000, 2 bytes)
\* reaches D with base 0x1000 and offset 0, write(0x1100, non-empty) returns
\* DeviceNotFound, and write(0x1090, 16 bytes) returns DeviceNotFound without
\* invoking D.
C8_AsStated ==
    \A d \in Handles :
        (Called({"mmio_write"}) /\ OnlyAt1000(d))
            => /\ (ret.addr = 4096 /\ ret.len = 2)
                    => ret.val.ok /\ ret.calls = <<WriteOf(d, 0, 2)>>
               /\ (ret.addr = 4352 /\ ret.len > 0)
                    => IsErr(ret.val, "DeviceNotFound") /\ ret.calls = <<>>
               /\ (ret.addr = 4240 /\ ret.len = 16)
                    => IsErr(ret.val, "DeviceNotFound") /\ ret.calls = <<>>

\* C8: with D alone at [0x1000, 0x10FF], write(0x1000, 2 bytes) reaches D
\* with base 0x1000 and offset 0 and write(0x1100, non-empty) returns
\* DeviceNotFound; write(0x1090, 16 bytes) ends at 0x109F, inside the range,
\* and reaches D with base 0x1000 and offset 0x90; a 16-byte write that does
\* straddle the end, at 0x10F8, returns DeviceNotFound without invoking D.
C8_Scenario ==
    \A d \in Handles :
        (Called({"mmio_write"}) /\ OnlyAt1000(d))
            => /\ (ret.addr = 4096 /\ ret.len = 2)
                    => ret.val.ok /\ ret.calls = <<WriteOf(d, 0, 2)>>
               /\ (ret.addr = 4352 /\ ret.len > 0)
                    => IsErr(ret.val, "DeviceNotFound") /\ ret.calls = <<>>
               /\ (ret.addr = 4240 /\ ret.len = 16)
                    => ret.val.ok /\ ret.calls = <<WriteOf(d, 144, 16)>>
               /\ (ret.addr = 4344 /\ ret.len = 16)
                    => IsErr(ret.val, "DeviceNotFound") /\ ret.calls = <<>>

\* The 16-byte write at 0x1090 was made on the scenario's bus.
C8_Witness ==
    /\ Called({"mmio_write"}) /\ ret.addr = 4240 /\ ret.len = 16
    /\ \E d \in Handles : OnlyAt1000(d)

\* The 16-byte write at 0x10F8 and the write at 0x1100 were refused.
C8_WitnessStraddle ==
    /\ Called({"mmio_write"}) /\ ret.addr = 4344 /\ ret.len = 16
    /\ IsErr(ret.val, "DeviceNotFound")
    /\ \E d \in Handles : OnlyAt1000(d)

\* C9: BusRange::new(base, 0) fails with InvalidRange; for size > 0 it fails,
\* with InvalidRange, iff base + size - 1 is beyond the largest address, and
\* otherwise gives a range with that base, that size and last = base + size - 1.
C9_RangeValidity ==
    Called({"new"})
        => /\ ret.len = 0 => IsErr(ret.val, "InvalidRange")
           /\ ret.len > 0 => (~ret.val.ok <=> Hi(ArgRange) > u64_MAX)
           /\ ~ret.val.ok => ret.val.e = "InvalidRange"
           /\ ret.val.ok
                => /\ last(ret.val.v) = ret.addr + ret.len - 1
                   /\ base_of(ret.val.v) = ret.addr
                   /\ size_of(ret.val.v) = ret.len

\* A range of several addresses ending on the largest address was built.
C9_Witness ==
    /\ Called({"new"}) /\ ret.val.ok
    /\ ret.len > 1 /\ Hi(ArgRange) = u64_MAX

\* C10: deregister at an address no range contains returns nothing and leaves
\* the bus as it was; at an address inside a range R it removes exactly R,
\* returns R and its handle, leaves every other association as it was, and
\* lookup then finds nothing at any address of R.
C10_Removal ==
    Called({"deregister"})
        => /\ CoveringEntries = {}
                => ~ret.val.some /\ devices = ret.bus
           /\ \A e \in CoveringEntries :
                /\ ret.val.some /\ ret.val.v = e
                /\ Entries(devices) = Entries(ret.bus) \ {e}
                /\ \A a \in Lo(e.range)..Hi(e.range) :
                        ~Bus_device(devices, a).some

\* A range was removed through an address above its base while another
\* range stayed registered.
C10_Witness ==
    /\ Called({"deregister"}) /\ ret.val.some
    /\ ret.addr > Lo(ret.val.v.range)
    /\ devices # Bus_new

\* The association a register call asks for.
ArgEntry == [range |-> ArgRange, dev |-> ret.dev]
Adjacent(r1, r2) == Hi(r1) + 1 = Lo(r2) \/ Hi(r2) + 1 = Lo(r1)
ShareOneAddress(r1, r2) == Hi(r1) = Lo(r2) \/ Hi(r2) = Lo(r1)

\* C11: register succeeds iff its range overlaps no registered range, and
\* then the bus is the bus before plus exactly the new association; a range
\* adjacent to the only registered range is accepted on either side of it, a
\* range sharing one address with a registered range is refused.
C11_RegisterIff ==
    Called({"register"})
        => /\ ret.val.ok <=> \A r \in Keys(ret.bus) : ~Intersect(ArgRange, r)
           /\ ret.val.ok
                => /\ Entries(devices) = Entries(ret.bus) \cup {ArgEntry}
                   /\ Cardinality(Entries(devices))
                        = Cardinality(Entries(ret.bus)) + 1
           /\ \A r \in Keys(ret.bus) :
                /\ (Keys(ret.bus) = {r} /\ Adjacent(r, ArgRange)) => ret.val.ok
                /\ ShareOneAddress(r, ArgRange) => IsErr(ret.val, "DeviceOverlap")

\* A range was registered right below a registered range, ending one address
\* before its base.
C11_Witness ==
    /\ Called({"register"}) /\ ret.val.ok
    /\ \E r \in Keys(ret.bus) : Hi(ArgRange) + 1 = Lo(r) /\ r.size > 1

\* A range sharing exactly its first address with the last address of a
\* registered range was refused.
C11_WitnessShared ==
    /\ Called({"register"}) /\ IsErr(ret.val, "DeviceOverlap")
    /\ \E r \in Keys(ret.bus) : Hi(r) = Lo(ArgRange) /\ Lo(r) < Lo(ArgRange)

\* C12: an access of length 0 fails with InvalidRange at every address and on
\* every bus, also inside a registered range, and invokes no device.
C12_ZeroLength ==
    (Called({"check_access", "mmio_read", "mmio_write"}) /\ ret.len = 0)
        => IsErr(ret.val, "InvalidRange") /\ ret.calls = <<>>

\* An empty read inside a registered range, above its base, was refused.
C12_Witness ==
    /\ Called({"mmio_read"}) /\ ret.len = 0
    /\ \E e \in CoveringEntries : ret.addr > Lo(e.range)
    /\ IsErr(ret.val, "InvalidRange")

\* enum bus::Error
BusErrors ==
    {"DeviceNotFound", "DeviceOverlap", "InvalidAccessLength", "InvalidRange"}

\* The unchecked arithmetic the call the caller is looking at evaluated.
StepsOfCall ==
    CASE ret.op = "device" -> Bus_device_steps(ret.bus, ret.addr)
      [] ret.op = "check_access"
            -> Bus_check_access_steps(ret.bus, ret.addr, ret.len)
      [] ret.op \in {"mmio_read", "mmio_write"}
            -> mmio_steps(ret.bus, ret.addr, ret.len)
      [] OTHER -> {}

\* C13: lookup, check_access, mmio_read and mmio_write never panic: on every
\* reachable bus, for every address and length, each unchecked addition and
\* subtraction they evaluate stays inside 0..u64::MAX, and the call returns
\* success or one of the errors of the bus.
C13_NoPanic ==
    Called({"device", "check_access", "mmio_read", "mmio_write"})
        => /\ StepsOfCall \subseteq 0..u64_MAX
           /\ Called({"device"}) => ret.val \in {None} \cup {Some(e) : e \in Entries(ret.bus)}
           /\ ~Called({"device"}) => ret.val.ok \/ ret.val.e \in BusErrors

\* A write above the base of a range that ends at the largest address, whose
\* last byte is the largest address, was dispatched.
C13_Witness ==
    /\ Called({"mmio_write"}) /\ ret.val.ok
    /\ AccessLast = u64_MAX /\ ret.len > 1
    /\ ret.addr > ret.calls[1].base

\* A read inside a range that ends at the largest address, whose last byte
\* would lie beyond it, was refused.
C13_WitnessBeyond ==
    /\ Called({"mmio_read"}) /\ IsErr(ret.val, "InvalidRange")
    /\ AccessLast > u64_MAX
    /\ \E r \in Keys(ret.bus) : Covers(r, ret.addr) /\ Hi(r) = u64_MAX

\* C17: a handle may own several ranges: registering a handle that is
\* already registered, under a range that overlaps nothing, is accepted and
\* adds one association without touching the others; removing one range of a
\* handle leaves its other ranges registered, and every address of them
\* still dispatches to the handle.
C17_MultiRange ==
    /\ ( /\ Called({"register"})
         /\ \E e \in Entries(ret.bus) : e.dev = ret.dev
         /\ \A r \in Keys(ret.bus) : ~Intersect(ArgRange, r) )
         => /\ ret.val.ok
            /\ Entries(devices) = Entries(ret.bus) \cup {ArgEntry}
    /\ (Called({"deregister"}) /\ ret.val.some)
         => \A e \in Entries(ret.bus) :
                (e.dev = ret.val.v.dev /\ e.range # ret.val.v.range)
                    => /\ e \in Entries(devices)
                       /\ \A a \in Lo(e.range)..Hi(e.range) :
                            /\ mmio_device(devices, a) = Some(e)
                            /\ mmio_read(devices, a, 1).calls
                                 = <<Invocation(e.dev, "read", e.range, a, 1)>>

\* One of the two ranges of a handle was removed; the other is registered.
C17_Witness ==
    /\ Called({"deregister"}) /\ ret.val.some
    /\ \E e \in Entries(devices) : e.dev = ret.val.v.dev /\ e.range.size > 1

\* A handle that owned a range was registered under a second one.
C17_WitnessRegister ==
    /\ Called({"register"}) /\ ret.val.ok
    /\ \E e \in Entries(ret.bus) : e.dev = ret.dev

\* The probe range of an access has a size and a last address in the type.
ProbeValid == ret.len >= 1 /\ AccessLast <= u64_MAX

\* C20: check_access validates the probe range before it looks the address
\* up: a length of 0 or a last byte beyond the largest address gives
\* InvalidRange on every bus, and DeviceNotFound is returned only for an
\* access whose probe range is valid.
C20_Precedence ==
    Called({"check_access"})
        => /\ ~ProbeValid => IsErr(ret.val, "InvalidRange")
           /\ IsErr(ret.val, "DeviceNotFound") => ProbeValid

\* An access with an invalid probe range at an address that no range of a
\* non-empty bus contains was answered with InvalidRange.
C20_Witness ==
    /\ Called({"check_access"}) /\ ~ProbeValid /\ ret.len > 0
    /\ Keys(ret.bus) # {}
    /\ \A r \in Keys(ret.bus) : ~Covers(r, ret.addr)
    /\ IsErr(ret.val, "InvalidRange")

\* The positions of the address-range descriptors of the list a call was given.
AddrIdx ==
    {i \in 1..Len(ret.resources) : ret.resources[i].kind = "GuestAddressRange"}
\* The range an address-range descriptor describes.
RangeOf(res) == [base |-> res.base, size |-> res.size]

\* C14: a registration from descriptors that returns Ok leaves the bus equal
\* to the bus before plus exactly one entry [base, base + size - 1] -> device
\* for each address-range descriptor; descriptors of the other variants add,
\* remove and change nothing.
C14_FromDescriptors ==
    (Called({"register_resources"}) /\ ret.val.ok)
        => /\ Entries(devices)
                = Entries(ret.bus)
                    \cup {[range |-> RangeOf(ret.resources[i]), dev |-> ret.dev] :
                            i \in AddrIdx}
           /\ Cardinality(Entries(devices))
                = Cardinality(Entries(ret.bus)) + Cardinality(AddrIdx)
           /\ \A e \in Entries(devices) \ Entries(ret.bus) :
                \E i \in AddrIdx :
                    /\ Lo(e.range) = ret.resources[i].base
                    /\ Hi(e.range)
                         = ret.resources[i].base + ret.resources[i].size - 1
           /\ AddrIdx = {} => devices = ret.bus

\* Two address-range descriptors were registered on a bus that held a range.
C14_Witness ==
    /\ Called({"register_resources"}) /\ ret.val.ok
    /\ Cardinality(AddrIdx) = 2 /\ Keys(ret.bus) # {}
    /\ Cardinality(Entries(devices)) = 3

\* A list of an MSI descriptor and an address-range descriptor was
\* registered on a bus that held a range.
C14_WitnessOther ==
    /\ Called({"register_resources"}) /\ ret.val.ok
    /\ Len(ret.resources) = 2 /\ ret.resources[1].kind = "MsiIrq"
    /\ AddrIdx = {2} /\ Keys(ret.bus) # {}

\* C15: deregister_resources returns a count, never an error, and the count
\* is the number of entries the call removed (entries before minus entries
\* after); nothing is added or altered, every removed range is one found for
\* an address-range descriptor, and when no address-range descriptor finds a
\* range the bus is left as it was and the count is 0.
C15_RemovedCount ==
    Called({"deregister_resources"})
        => /\ DOMAIN ret.val = {"count"}
           /\ Entries(devices) \subseteq Entries(ret.bus)
           /\ ret.val.count
                = Cardinality(Entries(ret.bus)) - Cardinality(Entries(devices))
           /\ \A e \in Entries(ret.bus) \ Entries(devices) :
                \E i \in AddrIdx : Covers(e.range, ret.resources[i].base)
           /\ (\A i \in AddrIdx : \A r \in Keys(ret.bus) :
                    ~Covers(r, ret.resources[i].base))
                => devices = ret.bus /\ ret.val.count = 0

\* Of two address-range descriptors one found a range and one found none,
\* and a range that neither names is still registered.
C15_Witness ==
    /\ Called({"deregister_resources"})
    /\ Cardinality(AddrIdx) = 2 /\ ret.val.count = 1
    /\ Keys(devices) # {}

\* What a registration from descriptors ended with.
ReturnedError == ~ret.val.ok /\ "Bus" \in DOMAIN ret.val
Panicked == ~ret.val.ok /\ "panic" \in DOMAIN ret.val
\* An address-range descriptor that describes no range of the address type.
InvalidDescriptor(res) ==
    /\ res.kind = "GuestAddressRange"
    /\ res.size = 0 \/ res.base + res.size - 1 > u64_MAX

\* C18: a registration from several descriptors that returns an error leaves
\* the bus exactly as it was before the call, with none of the descriptors of
\* the list left registered.
C18_AllOrNothing ==
    (Called({"register_resources"}) /\ ReturnedError)
        => /\ devices = ret.bus
           /\ Entries(devices) = Entries(ret.bus)

\* C19: a registration from descriptors that is given an address-range
\* descriptor of size 0, or whose last address lies beyond the address type,
\* does not panic: it returns an error, and the error carries InvalidRange
\* when that descriptor is the first address-range descriptor of the list.
C19_TypedError ==
    (Called({"register_resources"})
        /\ \E i \in AddrIdx : InvalidDescriptor(ret.resources[i]))
        => /\ ~Panicked
           /\ ReturnedError
           /\ \A i \in AddrIdx :
                (InvalidDescriptor(ret.resources[i]) /\ \A j \in AddrIdx : i <= j)
                    => ret.val = Error_Bus("InvalidRange")

\* The threads that have read the map in the call they are in.
Observers ==
    {t \in Threads :
        ret[t].op \in ReadOps /\ ret[t].pc \in {"checked", "delivered"}}

\* C16: with mutations made through exclusive access and reads through shared
\* access, the map a lookup or dispatch observes is the map before or the map
\* after each mutation, never a partly applied one, and an access is
\* delivered only to a handle whose range, in the map observed, contains the
\* whole access.
C16_Linearizable ==
    \A t \in Observers :
        /\ ret[t].obs \in ret[t].cuts
        /\ \A i \in 1..Len(ret[t].calls) :
             \E e \in Entries(ret[t].obs) :
                /\ e.dev = ret[t].calls[i].dev
                /\ Lo(e.range) = ret[t].calls[i].base
                /\ Lo(e.range) <= ret[t].addr
                /\ ret[t].addr + ret[t].len - 1 <= Hi(e.range)

\* An access was delivered on a bus of more ranges than single registrations
\* are let to build: the map observed is the map after a registration from
\* two descriptors, the second of which found the bus partly extended.
C16_Witness ==
    \E t \in Observers :
        /\ ret[t].pc = "delivered" /\ ret[t].calls # <<>>
        /\ Cardinality(DOMAIN ret[t].obs) > MaxRanges

\* Two threads are inside a dispatch at once.
C16_WitnessReaders ==
    /\ Observers = Threads
    /\ \A t \in Threads : ret[t].pc = "delivered" /\ ret[t].calls # <<>>

\* The calls that only read the bus.
ReadOnlyOps ==
    {"device", "device_mut", "check_access", "mmio_read", "mmio_write"}

\* C23: lookup (device, device_mut, mmio_device), check_access, mmio_read and
\* mmio_write, whether they succeed or fail, leave the bus as it was: no
\* range is added, removed or resized and no range changes its handle.
C23_ReadOnly ==
    Called(ReadOnlyOps)
        => /\ devices = ret.bus
           /\ Entries(devices) = Entries(ret.bus)

\* A write was dispatched on a bus of two ranges.
C23_Witness ==
    /\ Called({"mmio_write"}) /\ ret.val.ok /\ ret.calls # <<>>
    /\ Cardinality(Entries(devices)) = 2

\* A mutable lookup found a device.
C23_WitnessMut == Called({"device_mut"}) /\ ret.val.some

\* A read was refused on a bus that holds a range.
C23_WitnessFail ==
    /\ Called({"mmio_read"}) /\ IsErr(ret.val, "DeviceNotFound")
    /\ Keys(devices) # {}

\* The range of the call ends at the largest address of the type.
EndsAtTop(r) == r.size >= 1 /\ Hi(r) = u64_MAX

\* C24: the top of the address space is usable: a range whose last address is
\* the largest address can be constructed, and registered when it overlaps
\* nothing; a one-byte access at the largest address inside such a range
\* succeeds and is dispatched with offset largest address - base; a two-byte
\* access at the largest address fails.
C24_TopOfSpace ==
    /\ (Called({"new"}) /\ EndsAtTop(ArgRange)) => ret.val = Ok(ArgRange)
    /\ ( /\ Called({"register"}) /\ EndsAtTop(ArgRange)
         /\ \A r \in Keys(ret.bus) : ~Intersect(ArgRange, r) )
         => ret.val.ok /\ ArgEntry \in Entries(devices)
    /\ ( /\ Called({"check_access", "mmio_read", "mmio_write"})
         /\ ret.addr = u64_MAX
         /\ \E r \in Keys(ret.bus) : EndsAtTop(r) )
         => /\ ret.len = 1 => ret.val.ok
            /\ (ret.len = 1 /\ Called({"mmio_read", "mmio_write"}))
                 => \E e \in Entries(ret.bus) :
                       /\ EndsAtTop(e.range)
                       /\ Len(ret.calls) = 1
                       /\ ret.calls[1].dev = e.dev
                       /\ ret.calls[1].offset = u64_MAX - Lo(e.range)
                       /\ ret.calls[1].len = 1
            /\ ret.len = 2 => ~ret.val.ok /\ ret.calls = <<>>

\* A one-byte write at the largest address was dispatched into a range of
\* several addresses that ends there.
C24_Witness ==
    /\ Called({"mmio_write"}) /\ ret.addr = u64_MAX /\ ret.len = 1
    /\ ret.val.ok /\ ret.calls[1].offset > 0

\* A two-byte read at the largest address, inside a range, was refused.
C24_WitnessTwo ==
    /\ Called({"mmio_read"}) /\ ret.addr = u64_MAX /\ ret.len = 2
    /\ \E r \in Keys(ret.bus) : EndsAtTop(r)
    /\ ~ret.val.ok

\* What deregister_resources, called next with the list of the call the
\* caller is looking at, returns and leaves.
UndoNext == deregister_resources(devices, ret.resources)

\* C21: registration and deregistration by descriptors are a round trip:
\* after register_resources(device, S) returned Ok on a bus B,
\* deregister_resources(S) called next returns the number of address-range
\* descriptors of S and leaves the bus equal to B.
C21_RoundTrip ==
    (Called({"register_resources"}) /\ ret.val.ok)
        => /\ UndoNext.count = Cardinality(AddrIdx)
           /\ UndoNext.bus = ret.bus
           /\ Entries(UndoNext.bus) = Entries(ret.bus)

\* Two address-range descriptors were registered on a bus that held a range,
\* and deregistering the list next removes the two and leaves that range.
C21_Witness ==
    /\ Called({"register_resources"}) /\ ret.val.ok
    /\ Cardinality(AddrIdx) = 2 /\ Keys(ret.bus) # {}
    /\ UndoNext.count = 2 /\ UndoNext.bus # devices
    /\ Keys(UndoNext.bus) # {}

\* A list of a descriptor of several addresses, above its base a descriptor
\* of one address, was registered, and deregistering the list next removes
\* both.
C21_WitnessWide ==
    /\ Called({"register_resources"}) /\ ret.val.ok
    /\ Cardinality(AddrIdx) = 2
    /\ ret.resources[1].size > 1
    /\ ret.resources[2].base > ret.resources[1].base
    /\ UndoNext.count = 2

\* C22: deregister_resources removes only ranges that its descriptors
\* describe: when no address-range descriptor of the list has the base and
\* the size of a registered range, nothing is removed and the count is 0.
C22_OnlyDescribed ==
    ( /\ Called({"deregister_resources"})
      /\ \A i \in AddrIdx : RangeOf(ret.resources[i]) \notin Keys(ret.bus) )
        => devices = ret.bus /\ ret.val.count = 0

====
